---- MODULE Spec2Model ----
\* AuthorizedSearchEngine (plugins/search-backend): the page cursor codec, the
\* per-query DataLoader authorizer, the type-level gate, the result filter and
\* the backfill loop of query().
EXTENDS Integers, Sequences, FiniteSets, TLC

VARIABLES
  qs,       \* per caller: the local state of one run of query()
  now,      \* the wall clock read by Date.now(), in ms
  corpus,   \* the documents held by the wrapped search engine, in rank order
  policy,   \* the authorization collaborator: request key -> decision
  endless,  \* TRUE when the wrapped engine reports a further cursor for ever
  callers,  \* the callers that issue a query
  codec     \* the cursor codec applied on its own (CodecSpec)

vars == <<qs, now, corpus, policy, endless, callers, codec>>

-----------------------------------------------------------------------------
\* Bounds of the model.

MaxCorpus == 3       \* documents in the wrapped engine's index
MaxDelay == 2        \* longest time one collaborator call takes, in ms
MaxCount == 3        \* the call counters stop counting here
MaxPageIdx == 110    \* page indexes given to the codec on its own
MaxPayloadLen == 3   \* length of the cursor payloads given to the codec
EnginePageSize == 2  \* raw results per page of the wrapped engine

\* Configuration of the instance under study (constructor, config override).
pageSize == 1
queryLatencyBudgetMs == 1

-----------------------------------------------------------------------------
\* JavaScript values.

Undefined == <<>>
Some(x) == <<x>>

Min(a, b) == IF a < b THEN a ELSE b
Max(a, b) == IF a < b THEN b ELSE a
Range(s) == {s[i] : i \in 1..Len(s)}

RECURSIVE Pow10(_)
Pow10(e) == IF e = 0 THEN 1 ELSE 10 * Pow10(e - 1)

\* A JS number: NaN, +/-Infinity, or the finite decimal m / 10^e, kept
\* normalised (e = 0 or m not a multiple of 10).
NaN == [k |-> "nan", m |-> 0, e |-> 0]
Infinity(sign) == [k |-> "inf", m |-> sign, e |-> 0]

RECURSIVE Fin(_, _)
Fin(m, e) ==
  IF e > 0 /\ m % 10 = 0 THEN Fin(m \div 10, e - 1)
  ELSE [k |-> "fin", m |-> m, e |-> e]

Int2Num(i) == Fin(i, 0)
IsNaN(n) == n.k = "nan"
IsInteger(n) == n.k = "fin" /\ n.e = 0
NumNeg(n) == IF n.k = "fin" THEN Fin(0 - n.m, n.e)
             ELSE IF n.k = "inf" THEN Infinity(0 - n.m) ELSE n
\* n < 0, n === 0
NumIsNegative(n) == n.k # "nan" /\ n.m < 0
NumIsZero(n) == n.k = "fin" /\ n.m = 0
\* n + i and n * i for an integer i (i > 0 for the product)
NumAddInt(n, i) == IF n.k = "fin" THEN Fin(n.m + i * Pow10(n.e), n.e) ELSE n
NumMulInt(n, i) == IF n.k = "fin" THEN Fin(n.m * i, n.e) ELSE n
\* i < n and i > n for an integer i
IntLessNum(i, n) ==
  CASE n.k = "fin" -> i * Pow10(n.e) < n.m
    [] n.k = "inf" -> n.m > 0
    [] OTHER -> FALSE
IntGreaterNum(i, n) ==
  CASE n.k = "fin" -> i * Pow10(n.e) > n.m
    [] n.k = "inf" -> n.m < 0
    [] OTHER -> FALSE

-----------------------------------------------------------------------------
\* Strings are sequences of one-character strings.

DigitChars == <<"0", "1", "2", "3", "4", "5", "6", "7", "8", "9">>
IsDigit(c) == \E i \in 1..10 : DigitChars[i] = c
DigitVal(c) == (CHOOSE i \in 1..10 : DigitChars[i] = c) - 1

OtherChars == {"-", ".", "a", "I", "n", "f", "i", "t", "y", "N"}
Chars == Range(DigitChars) \cup OtherChars

\* Buffer.from(str, 'utf-8'): one byte per (ASCII) character.
CharCode(c) ==
  IF IsDigit(c) THEN 48 + DigitVal(c)
  ELSE CASE c = "-" -> 45
         [] c = "." -> 46
         [] c = "a" -> 97
         [] c = "I" -> 73
         [] c = "N" -> 78
         [] c = "n" -> 110
         [] c = "f" -> 102
         [] c = "i" -> 105
         [] c = "t" -> 116
         [] c = "y" -> 121

Utf8Bytes(s) == [i \in 1..Len(s) |-> CharCode(s[i])]
\* buf.toString('utf-8')
Utf8String(b) == [i \in 1..Len(b) |-> CHOOSE c \in Chars : CharCode(c) = b[i]]

\* A base64 string is the sequence of its characters' 6-bit values; Pad is '='.
Pad == 64

RECURSIVE Base64Encode(_)
Base64Encode(b) ==
  IF Len(b) = 0 THEN <<>>
  ELSE IF Len(b) = 1
    THEN <<b[1] \div 4, (b[1] % 4) * 16, Pad, Pad>>
  ELSE IF Len(b) = 2
    THEN <<b[1] \div 4, (b[1] % 4) * 16 + b[2] \div 16, (b[2] % 16) * 4, Pad>>
  ELSE <<b[1] \div 4, (b[1] % 4) * 16 + b[2] \div 16,
         (b[2] % 16) * 4 + b[3] \div 64, b[3] % 64>>
       \o Base64Encode(SubSeq(b, 4, Len(b)))

\* Buffer.from(str, 'base64'): decoding stops at the first '='; a trailing
\* group of 2 or 3 characters gives 1 or 2 bytes, a single one gives none.
RECURSIVE Base64Groups(_)
Base64Groups(x) ==
  IF Len(x) < 2 THEN <<>>
  ELSE IF Len(x) = 2 THEN <<x[1] * 4 + x[2] \div 16>>
  ELSE IF Len(x) = 3
    THEN <<x[1] * 4 + x[2] \div 16, (x[2] % 16) * 16 + x[3] \div 4>>
  ELSE <<x[1] * 4 + x[2] \div 16, (x[2] % 16) * 16 + x[3] \div 4,
         (x[3] % 4) * 64 + x[4]>>
       \o Base64Groups(SubSeq(x, 5, Len(x)))

Base64Decode(x) ==
  LET pads == {i \in 1..Len(x) : x[i] = Pad}
      stop == IF pads = {} THEN Len(x)
              ELSE (CHOOSE i \in pads : \A j \in pads : i <= j) - 1
  IN Base64Groups(SubSeq(x, 1, stop))

-----------------------------------------------------------------------------
\* Number(str) and `${number}`.

RECURSIVE DigitsValue(_)
DigitsValue(s) ==
  IF Len(s) = 0 THEN 0
  ELSE DigitsValue(SubSeq(s, 1, Len(s) - 1)) * 10 + DigitVal(s[Len(s)])

RECURSIVE DigitsOf(_)
DigitsOf(i) ==
  IF i < 10 THEN <<DigitChars[i + 1]>>
  ELSE DigitsOf(i \div 10) \o <<DigitChars[(i % 10) + 1]>>

RECURSIVE Zeros(_)
Zeros(k) == IF k <= 0 THEN <<>> ELSE <<"0">> \o Zeros(k - 1)

AllDigits(s) == \A i \in 1..Len(s) : IsDigit(s[i])
InfinityStr == <<"I", "n", "f", "i", "n", "i", "t", "y">>

\* StrUnsignedDecimalLiteral: Infinity, digits, digits.digits, digits., .digits
UnsignedToNumber(s) ==
  LET dots == {i \in 1..Len(s) : s[i] = "."} IN
  IF s = InfinityStr THEN Infinity(1)
  ELSE IF dots = {} THEN
    IF Len(s) > 0 /\ AllDigits(s) THEN Fin(DigitsValue(s), 0) ELSE NaN
  ELSE IF Cardinality(dots) = 1 THEN
    LET d == CHOOSE i \in dots : TRUE
        ip == SubSeq(s, 1, d - 1)
        fp == SubSeq(s, d + 1, Len(s))
    IN IF AllDigits(ip) /\ AllDigits(fp) /\ Len(ip) + Len(fp) > 0
       THEN Fin(DigitsValue(ip \o fp), Len(fp)) ELSE NaN
  ELSE NaN

\* Number(str): the empty string is 0, a leading '-' negates.
StringToNumber(s) ==
  IF Len(s) = 0 THEN Fin(0, 0)
  ELSE IF s[1] = "-" THEN NumNeg(UnsignedToNumber(Tail(s)))
  ELSE UnsignedToNumber(s)

\* `${n}`
NumberToString(n) ==
  CASE n.k = "nan" -> <<"N", "a", "N">>
    [] n.k = "inf" -> (IF n.m < 0 THEN <<"-">> ELSE <<>>) \o InfinityStr
    [] OTHER ->
      LET a == IF n.m < 0 THEN 0 - n.m ELSE n.m
          ip == DigitsOf(a \div Pow10(n.e))
          fd == DigitsOf(a % Pow10(n.e))
      IN (IF n.m < 0 THEN <<"-">> ELSE <<>>) \o ip
         \o (IF n.e = 0 THEN <<>> ELSE <<".">> \o Zeros(n.e - Len(fd)) \o fd)

-----------------------------------------------------------------------------
\* The page cursor codec.

InvalidCursor == [ok |-> FALSE, page |-> NaN, error |-> "Invalid cursor"]
ValidCursor(page) == [ok |-> TRUE, page |-> page, error |-> ""]

NumberOfCursor(pageCursor) ==
  StringToNumber(Utf8String(Base64Decode(pageCursor[1])))

decodePageCursor(pageCursor) ==
  IF pageCursor = Undefined \/ pageCursor = Some(<<>>)
    THEN ValidCursor(Int2Num(0))
  ELSE LET page == NumberOfCursor(pageCursor) IN
    IF IsNaN(page) THEN InvalidCursor
    ELSE IF NumIsNegative(page) THEN InvalidCursor
    ELSE ValidCursor(page)

\* Variant of encodePageCursor: pages counted from 1.
encodePageCursor_oneBased(page) ==
  Some(Base64Encode(Utf8Bytes(NumberToString(NumAddInt(page, 1)))))

encodePageCursor(page) == Some(Base64Encode(Utf8Bytes(NumberToString(page))))

\* The cursor a client holds for a payload string.
CursorOf(payload) == Some(Base64Encode(Utf8Bytes(payload)))

-----------------------------------------------------------------------------
\* Collaborators and construction-time data.

ALLOW == "ALLOW"
DENY == "DENY"
CONDITIONAL == "CONDITIONAL"
AuthorizeResult == {ALLOW, DENY, CONDITIONAL}

Callers == {1, 2}
Permissions == {"p"}
ResourceRefs == {"r1", "r2"}

\* this.types: type name -> its visibility permission, if it has one.
types == [t \in {"a", "b"} |-> IF t = "a" THEN Some("p") ELSE Undefined]
TypeNames == <<"a", "b">>   \* Object.keys(this.types)

visibilityPermission(type) ==
  IF type \in DOMAIN types THEN types[type] ELSE Undefined

\* AuthorizeQuery values.
Request(permission, resourceRef) ==
  [permission |-> permission, resourceRef |-> resourceRef]
AuthorizeQueries ==
  {Request(p, r) : p \in Permissions,
                   r \in {Undefined} \cup {Some(x) : x \in ResourceRefs}}

\* The authorization collaborator is a function of the request: any decision
\* for a permission alone, ALLOW for resource r1, DENY or CONDITIONAL for r2.
Policies ==
  {f \in [AuthorizeQueries -> AuthorizeResult] :
     \A p \in Permissions :
       /\ f[Request(p, Some("r1"))] = ALLOW
       /\ f[Request(p, Some("r2"))] # ALLOW}

\* The options of a query stand for the credentials of its caller. The
\* collaborator decides by `policy` for caller 1 and the other way round for
\* any other caller.
Mirror(decision) ==
  IF decision = ALLOW THEN DENY ELSE IF decision = DENY THEN ALLOW ELSE decision
PolicyOf(options) ==
  IF options = 1 THEN policy ELSE [r \in AuthorizeQueries |-> Mirror(policy[r])]

\* permissions.authorize(requests, options): one decision per request, in order.
authorize(requests, options) ==
  [i \in 1..Len(requests) |-> PolicyOf(options)[requests[i]]]

\* Documents of the index: a type and an optional authorization.resourceRef.
Documents ==
  {[type |-> "a", resourceRef |-> Undefined],
   [type |-> "a", resourceRef |-> Some("r1")],
   [type |-> "a", resourceRef |-> Some("r2")],
   [type |-> "b", resourceRef |-> Undefined]}

RECURSIVE SeqsUpTo(_, _)
SeqsUpTo(S, n) ==
  IF n = 0 THEN {<<>>}
  ELSE LET shorter == SeqsUpTo(S, n - 1)
       IN shorter \cup {Append(s, x) : s \in {t \in shorter : Len(t) = n - 1}, x \in S}

\* A search result is a document with its rank in the index.
Corpora ==
  {[i \in 1..Len(d) |-> [id |-> i, type |-> d[i].type, resourceRef |-> d[i].resourceRef]] :
     d \in SeqsUpTo(Documents, MaxCorpus)}

\* searchEngine.query({types, pageCursor}): the documents of the given types,
\* EnginePageSize at a time; the cursor it hands out is the number of the next
\* raw page. An endless engine starts over after its last page.
SearchEngineQuery(typesArg, pageCursor) ==
  LET matching == SelectSeq(corpus, LAMBDA r : r.type \in Range(typesArg))
      k == IF pageCursor = Undefined THEN 0 ELSE pageCursor[1]
      first == k * EnginePageSize + 1
      last == Min((k + 1) * EnginePageSize, Len(matching))
      pages == Max(1, (Len(matching) + EnginePageSize - 1) \div EnginePageSize)
  IN [results |-> SubSeq(matching, first, last),
      nextPageCursor |->
        IF endless THEN Some((k + 1) % pages)
        ELSE IF last < Len(matching) THEN Some(k + 1) ELSE Undefined]

\* The clock stops counting at ClockCap: each caller's query has the time to
\* exhaust its budget.
ClockCap == Cardinality(callers) * (queryLatencyBudgetMs + 1)
Tick(d) == Min(now + d, ClockCap)
Count(n) == Min(n + 1, MaxCount)

-----------------------------------------------------------------------------
\* The DataLoader of one query.

\* new DataLoader(batchFn) is given no cacheKeyFn: the cache is a Map keyed by
\* the key object itself. Every load() of query() and filterResults() passes a
\* new object literal, and a new object is never the same Map key as an object
\* loaded before, whatever its fields.
SameCacheKey(cached, request) == FALSE

\* The cache is a set of [request, decision]; the queue of the next batch is a
\* sequence of requests.
CacheHas(cache, batch, request) ==
  \/ \E k \in cache : SameCacheKey(k.request, request)
  \/ \E j \in 1..Len(batch) : SameCacheKey(batch[j], request)

NoLoad == [load |-> "none", at |-> 0, decision |-> ALLOW]

\* authorizer.load(request): the promise it returns, as the place its decision
\* comes from (the cache, or a position of the next batch).
LoadSlot(cache, batch, request) ==
  IF \E k \in cache : SameCacheKey(k.request, request)
    THEN LET k == CHOOSE c \in cache : SameCacheKey(c.request, request)
         IN [load |-> "cache", at |-> 0, decision |-> k.decision]
  ELSE IF \E j \in 1..Len(batch) : SameCacheKey(batch[j], request)
    THEN [load |-> "batch",
          at |-> CHOOSE j \in 1..Len(batch) : SameCacheKey(batch[j], request),
          decision |-> ALLOW]
  ELSE [load |-> "batch", at |-> Len(batch) + 1, decision |-> ALLOW]

LoadBatch(cache, batch, request) ==
  IF CacheHas(cache, batch, request) THEN batch ELSE Append(batch, request)

\* authorizer.load for each request of reqs (Undefined: nothing to load), in
\* order, within one tick: the queue of the next batch and the promises.
RECURSIVE LoadMany(_, _, _)
LoadMany(cache, batch, reqs) ==
  IF Len(reqs) = 0 THEN [batch |-> batch, slots |-> <<>>]
  ELSE LET r == Head(reqs) IN
    IF r = Undefined
      THEN LET rest == LoadMany(cache, batch, Tail(reqs))
           IN [batch |-> rest.batch, slots |-> <<NoLoad>> \o rest.slots]
    ELSE LET rest == LoadMany(cache, LoadBatch(cache, batch, r[1]), Tail(reqs))
         IN [batch |-> rest.batch,
             slots |-> <<LoadSlot(cache, batch, r[1])>> \o rest.slots]

\* The decision a promise resolves to once the batch got `decisions`.
Resolve(slot, decisions) ==
  IF slot.load = "batch" THEN decisions[slot.at] ELSE slot.decision

-----------------------------------------------------------------------------
\* query(): the local state of one run.

QueryInputs ==
  [term : {"t"},
   types : {Undefined, Some(<<>>), Some(<<"b">>), Some(<<"a", "a">>)},
   pageCursor : {Undefined, CursorOf(<<"1">>), CursorOf(<<"0", ".", "5">>),
                 CursorOf(<<"a">>)}]

NoResult == [results |-> <<>>, previousPageCursor |-> Undefined,
             nextPageCursor |-> Undefined]
NoPage == [results |-> <<>>, nextPageCursor |-> Undefined]
NoCall == [term |-> "", types |-> <<>>, pageCursor |-> Undefined]

Idle ==
  [pc |-> "idle",
   query |-> [term |-> "", types |-> Undefined, pageCursor |-> Undefined],
   queryStartTime |-> 0,
   cache |-> {}, batch |-> <<>>, slots |-> <<>>,
   requestedTypes |-> <<>>, typeDecisions |-> <<>>, authorizedTypes |-> <<>>,
   page |-> Int2Num(0), targetResults |-> Int2Num(0),
   filteredResults |-> <<>>, nextPageCursor |-> Undefined,
   latencyBudgetExhausted |-> FALSE,
   nextPage |-> NoPage,
   result |-> NoResult, error |-> "",
   \* history of the collaborator calls of this run
   engineCalls |-> 0, authorizeCalls |-> 0,
   engineCall |-> NoCall,         \* arguments of the last engine call
   authorizeCall |-> <<>>,        \* requests of the last authorize call
   authorizedBefore |-> {},       \* requests of the authorize calls before it
   authorizeOptions |-> 0,        \* options of the last authorize call
   elapsed |-> 0]                 \* Date.now() - queryStartTime of line 131

\* zipObject(requestedTypes, decisions)[type]: a later entry overwrites an
\* earlier one of the same type; Undefined when the type is no key.
TypeDecision(requestedTypes, decisions, type) ==
  LET at == {i \in 1..Len(requestedTypes) : requestedTypes[i] = type} IN
  IF at = {} THEN Undefined
  ELSE Some(decisions[CHOOSE i \in at : \A j \in at : j <= i])

\* Variants of authorizedTypes: the requested types unfiltered; the types whose
\* decision is not ALLOW.
authorizedTypes_unfiltered(requestedTypes, decisions) == requestedTypes
authorizedTypes_notAllow(requestedTypes, decisions) ==
  SelectSeq(requestedTypes,
            LAMBDA t : TypeDecision(requestedTypes, decisions, t) # Some(ALLOW))

\* requestedTypes.filter(type => typeDecisions[type]?.result !== DENY)
authorizedTypes(requestedTypes, decisions) ==
  SelectSeq(requestedTypes,
            LAMBDA t : TypeDecision(requestedTypes, decisions, t) # Some(DENY))

\* Variant of ResultRequest: a document without resourceRef is checked too.
ResultRequest_noDefault(requestedTypes, decisions, result) ==
  IF TypeDecision(requestedTypes, decisions, result.type) = Some(ALLOW)
    THEN Undefined
  ELSE IF visibilityPermission(result.type) = Undefined
    THEN Undefined
  ELSE Some(Request(visibilityPermission(result.type)[1], result.resourceRef))

\* Variant of ResultRequest: the type-level decision is not looked at.
ResultRequest_always(requestedTypes, decisions, result) ==
  IF visibilityPermission(result.type) = Undefined
     \/ result.resourceRef = Undefined
    THEN Undefined
  ELSE Some(Request(visibilityPermission(result.type)[1], result.resourceRef))

\* The request filterResults loads for a result, Undefined when it loads none.
ResultRequest(requestedTypes, decisions, result) ==
  IF TypeDecision(requestedTypes, decisions, result.type) = Some(ALLOW)
    THEN Undefined
  ELSE IF visibilityPermission(result.type) = Undefined
          \/ result.resourceRef = Undefined
    THEN Undefined
  ELSE Some(Request(visibilityPermission(result.type)[1], result.resourceRef))

\* Variant of filterResults: a result is dropped only when its decision is DENY.
filterResults_notDeny(results, slots, decisions) ==
  LET keep == {i \in 1..Len(results) :
                 slots[i].load = "none" \/ Resolve(slots[i], decisions) # DENY}
      F[i \in 0..Len(results)] ==
        IF i = 0 THEN <<>>
        ELSE IF i \in keep THEN Append(F[i - 1], results[i]) ELSE F[i - 1]
  IN F[Len(results)]

\* compact(await Promise.all(results.map(...))): a result is kept when it
\* loaded nothing or its decision is ALLOW.
filterResults(results, slots, decisions) ==
  LET keep == {i \in 1..Len(results) :
                 slots[i].load = "none" \/ Resolve(slots[i], decisions) = ALLOW}
      F[i \in 0..Len(results)] ==
        IF i = 0 THEN <<>>
        ELSE IF i \in keep THEN Append(F[i - 1], results[i]) ELSE F[i - 1]
  IN F[Len(results)]

\* array.slice(start, end) for numbers start <= end: both are truncated to
\* integers and clamped to the length.
SliceIndex(n, len) ==
  IF n.k = "inf" THEN len ELSE Min(n.m \div Pow10(n.e), len)
Slice(s, start, end) ==
  SubSeq(s, SliceIndex(start, Len(s)) + 1, SliceIndex(end, Len(s)))

\* Variant of BudgetExhausted: a query on its budget has exhausted it.
BudgetExhausted_atLeast(elapsed) == elapsed >= queryLatencyBudgetMs

\* Variant of BudgetExhausted: the budget is never looked at.
BudgetExhausted_never(elapsed) == FALSE

\* Date.now() - queryStartTime > this.config.queryLatencyBudgetMs
BudgetExhausted(elapsed) == elapsed > queryLatencyBudgetMs

\* Variant of LoopContinues: one page of results is enough.
LoopContinues_onePage(cursor, filtered, targetResults, exhausted) ==
  /\ cursor # Undefined
  /\ Len(filtered) < pageSize
  /\ ~exhausted

\* The condition of the do/while loop.
LoopContinues(cursor, filtered, targetResults, exhausted) ==
  /\ cursor # Undefined
  /\ IntLessNum(Len(filtered), targetResults)
  /\ ~exhausted

\* The three fields of the returned result set.
PageResults(filtered, page) ==
  Slice(filtered, NumMulInt(page, pageSize), NumMulInt(NumAddInt(page, 1), pageSize))

PreviousPageCursor(page) ==
  IF NumIsZero(page) THEN Undefined ELSE encodePageCursor(NumAddInt(page, 0 - 1))

\* Variants of NextPageCursor: the budget is ignored; the accumulated results
\* are ignored; >= for >.
NextPageCursor_noBudget(page, cursor, filtered, targetResults, exhausted) ==
  IF cursor # Undefined \/ IntGreaterNum(Len(filtered), targetResults)
    THEN encodePageCursor(NumAddInt(page, 1))
  ELSE Undefined
NextPageCursor_cursorOnly(page, cursor, filtered, targetResults, exhausted) ==
  IF ~exhausted /\ cursor # Undefined
    THEN encodePageCursor(NumAddInt(page, 1))
  ELSE Undefined
NextPageCursor_atLeast(page, cursor, filtered, targetResults, exhausted) ==
  IF ~exhausted /\ (cursor # Undefined \/ ~IntLessNum(Len(filtered), targetResults))
    THEN encodePageCursor(NumAddInt(page, 1))
  ELSE Undefined

NextPageCursor(page, cursor, filtered, targetResults, exhausted) ==
  IF ~exhausted /\ (cursor # Undefined \/ IntGreaterNum(Len(filtered), targetResults))
    THEN encodePageCursor(NumAddInt(page, 1))
  ELSE Undefined

\* Variant of Failed: the error is noted and the failed call is made again.
Failed_retry(q, error) == [q EXCEPT !.error = error]

\* The promise of query() rejects: its local state is gone.
Failed(q, error) ==
  [Idle EXCEPT !.pc = "failed", !.error = error,
               !.query = q.query,
               !.engineCalls = q.engineCalls,
               !.authorizeCalls = q.authorizeCalls]

\* Lines 108-117: the decisions of the types are in; the authorized types,
\* then the page cursor, whose error fails the query.
AfterTypeDecisions(q, decisions) ==
  LET cur == decodePageCursor(q.query.pageCursor)
      q1 == [q EXCEPT !.typeDecisions = decisions,
                      !.authorizedTypes = authorizedTypes(q.requestedTypes, decisions),
                      !.batch = <<>>, !.slots = <<>>]
  IN IF ~cur.ok THEN Failed(q1, cur.error)
     ELSE [q1 EXCEPT !.pc = "fetch",
                     !.page = cur.page,
                     !.targetResults = NumMulInt(NumAddInt(cur.page, 1), pageSize)]

\* Lines 125-150: the end of one iteration of the loop, with the results the
\* filter kept of the raw page, at time `time`; then either the next
\* iteration or the returned result set.
EndIteration(q, kept, time) ==
  LET filtered == q.filteredResults \o kept
      cursor == q.nextPage.nextPageCursor
      elapsed == time - q.queryStartTime
      exhausted == BudgetExhausted(elapsed)
      q1 == [q EXCEPT !.filteredResults = filtered,
                      !.nextPageCursor = cursor,
                      !.latencyBudgetExhausted = exhausted,
                      !.elapsed = elapsed,
                      !.batch = <<>>, !.slots = <<>>]
  IN IF LoopContinues(cursor, filtered, q.targetResults, exhausted)
       THEN [q1 EXCEPT !.pc = "fetch"]
     ELSE [q1 EXCEPT
             !.pc = "done",
             !.result =
               [results |-> PageResults(filtered, q.page),
                previousPageCursor |-> PreviousPageCursor(q.page),
                nextPageCursor |->
                  NextPageCursor(q.page, cursor, filtered, q.targetResults, exhausted)]]

\* The requests of the type-level gate, one per requested type.
TypeRequests(requestedTypes) ==
  [j \in 1..Len(requestedTypes) |->
     IF visibilityPermission(requestedTypes[j]) = Undefined THEN Undefined
     ELSE Some(Request(visibilityPermission(requestedTypes[j])[1], Undefined))]

\* Variant of CallOptions: the options of the first caller, whoever calls.
CallOptions_first(i) == 1

\* The options the batch function of caller i's query passes on (line 91):
\* the options of this call of query().
CallOptions(i) == i

\* Variant of Dispatched: one call of permissions.authorize per request.
Dispatched_perRequest(q, decisions, options) ==
  [q EXCEPT !.cache = @ \cup {[request |-> q.batch[j], decision |-> decisions[j]] :
                                j \in 1..Len(q.batch)},
            !.authorizeCalls = Min(@ + Len(q.batch), MaxCount),
            !.authorizeCall = q.batch,
            !.authorizedBefore = @ \cup Range(q.authorizeCall),
            !.authorizeOptions = options]

\* The batch function of the DataLoader runs: one call of permissions.authorize.
Dispatched(q, decisions, options) ==
  [q EXCEPT !.cache = @ \cup {[request |-> q.batch[j], decision |-> decisions[j]] :
                                j \in 1..Len(q.batch)},
            !.authorizeCalls = Count(@),
            !.authorizeCall = q.batch,
            !.authorizedBefore = @ \cup Range(q.authorizeCall),
            !.authorizeOptions = options]

\* Variant of EngineCallQuery: every call asks for the first raw page.
EngineCallQuery_restart(q) ==
  [term |-> q.query.term, types |-> q.authorizedTypes, pageCursor |-> Undefined]

\* Line 121: { ...query, types: authorizedTypes, pageCursor: nextPageCursor }
EngineCallQuery(q) ==
  [term |-> q.query.term, types |-> q.authorizedTypes,
   pageCursor |-> q.nextPageCursor]

-----------------------------------------------------------------------------
\* Actions: the synchronous stretches of query() between two awaits.

\* Lines 88-105: query() is called; the type-level requests are loaded. With
\* nothing to load the decisions are in at once.
Start(i) ==
  /\ qs[i].pc = "idle"
  /\ i \in callers
  /\ now + queryLatencyBudgetMs < ClockCap
  /\ \E query \in QueryInputs :
       LET requestedTypes == IF query.types = Undefined THEN TypeNames
                             ELSE query.types[1]
           loads == LoadMany({}, <<>>, TypeRequests(requestedTypes))
           q == [Idle EXCEPT !.query = query,
                             !.queryStartTime = now,
                             !.requestedTypes = requestedTypes,
                             !.batch = loads.batch,
                             !.slots = loads.slots]
       IN qs' = [qs EXCEPT ![i] =
                   IF Len(loads.batch) = 0
                     THEN AfterTypeDecisions(q,
                            [j \in 1..Len(requestedTypes) |-> Resolve(loads.slots[j], <<>>)])
                   ELSE [q EXCEPT !.pc = "authTypes"]]
  /\ UNCHANGED <<now, corpus, policy, endless, callers, codec>>

\* Lines 90-92, 97: the batch of type-level requests is authorized.
AuthorizeTypes(i) ==
  /\ qs[i].pc = "authTypes"
  /\ \E d \in 0..MaxDelay, ok \in BOOLEAN :
       LET q == qs[i]
           decisions == authorize(q.batch, CallOptions(i))
           q1 == Dispatched(q, decisions, CallOptions(i))
       IN /\ now' = Tick(d)
          /\ qs' = [qs EXCEPT ![i] =
                      IF ~ok THEN Failed(q1, "AuthorizationFailure")
                      ELSE AfterTypeDecisions(q1,
                             [j \in 1..Len(q.requestedTypes) |->
                                Resolve(q.slots[j], decisions)])]
  /\ UNCHANGED <<corpus, policy, endless, callers, codec>>

\* Lines 120-126: one call of the wrapped engine, which takes d ms, then the
\* synchronous part of filterResults; with nothing to load the iteration ends
\* here.
EngineQueryIn(i, d) ==
  /\ qs[i].pc = "fetch"
  /\ \E ok \in BOOLEAN :
       LET q == qs[i]
           call == EngineCallQuery(q)
           nextPage == SearchEngineQuery(call.types, call.pageCursor)
           loads == LoadMany(q.cache, <<>>,
                      [j \in 1..Len(nextPage.results) |->
                         ResultRequest(q.requestedTypes, q.typeDecisions,
                                       nextPage.results[j])])
           q1 == [q EXCEPT !.engineCalls = Count(@), !.engineCall = call]
           q2 == [q1 EXCEPT !.nextPage = nextPage,
                            !.batch = loads.batch,
                            !.slots = loads.slots]
       IN /\ now' = Tick(d)
          /\ qs' = [qs EXCEPT ![i] =
                      IF ~ok THEN Failed(q1, "UnderlyingEngineFailure")
                      ELSE IF Len(loads.batch) = 0
                        THEN EndIteration(q2,
                               filterResults(nextPage.results, loads.slots, <<>>),
                               Tick(d))
                      ELSE [q2 EXCEPT !.pc = "authDocs"]]
  /\ UNCHANGED <<corpus, policy, endless, callers, codec>>

EngineQuery(i) == \E d \in 0..MaxDelay : EngineQueryIn(i, d)

\* Lines 172-176, 125-136: the batch of per-document requests is authorized,
\* which takes d ms, and the iteration ends.
AuthorizeDocsIn(i, d) ==
  /\ qs[i].pc = "authDocs"
  /\ \E ok \in BOOLEAN :
       LET q == qs[i]
           decisions == authorize(q.batch, CallOptions(i))
           q1 == Dispatched(q, decisions, CallOptions(i))
       IN /\ now' = Tick(d)
          /\ qs' = [qs EXCEPT ![i] =
                      IF ~ok THEN Failed(q1, "AuthorizationFailure")
                      ELSE EndIteration(q1,
                             filterResults(q.nextPage.results, q.slots, decisions),
                             Tick(d))]
  /\ UNCHANGED <<corpus, policy, endless, callers, codec>>

AuthorizeDocs(i) == \E d \in 0..MaxDelay : AuthorizeDocsIn(i, d)

-----------------------------------------------------------------------------
\* The codec on its own: a page index is encoded and the cursor decoded, or a
\* cursor of any payload is decoded.

PayloadChars == {"0", "1", "5", "-", ".", "a"}
Payloads == SeqsUpTo(PayloadChars, MaxPayloadLen) \cup {InfinityStr}

CodecOff == [stage |-> "off", page |-> 0, payload |-> <<>>,
             cursor |-> Undefined, out |-> InvalidCursor]

CodecInputs ==
  {[CodecOff EXCEPT !.stage = "page", !.page = p] : p \in 0..MaxPageIdx}
  \cup {[CodecOff EXCEPT !.stage = "cursor", !.payload = s, !.cursor = CursorOf(s)] :
          s \in Payloads}
  \cup {[CodecOff EXCEPT !.stage = "cursor"]}

CodecEncode ==
  /\ codec.stage = "page"
  /\ codec' = [codec EXCEPT !.stage = "encoded",
                            !.cursor = encodePageCursor(Int2Num(codec.page)),
                            !.payload = NumberToString(Int2Num(codec.page))]
  /\ UNCHANGED <<qs, now, corpus, policy, endless, callers>>

CodecDecode ==
  /\ codec.stage \in {"cursor", "encoded"}
  /\ codec' = [codec EXCEPT !.stage = IF codec.stage = "cursor" THEN "decoded"
                                      ELSE "roundtrip",
                            !.out = decodePageCursor(codec.cursor)]
  /\ UNCHANGED <<qs, now, corpus, policy, endless, callers>>

-----------------------------------------------------------------------------
\* Specifications.

Quiet ==
  /\ qs = [i \in Callers |-> Idle]
  /\ now = 0

\* One caller, a finite index.
Init ==
  /\ Quiet
  /\ corpus \in Corpora
  /\ policy \in Policies
  /\ endless = FALSE
  /\ callers = {1}
  /\ codec = CodecOff

Next ==
  \E i \in Callers :
    \/ Start(i)
    \/ AuthorizeTypes(i)
    \/ EngineQuery(i)
    \/ AuthorizeDocs(i)

Spec == Init /\ [][Next]_vars

\* The codec alone.
CodecInit ==
  /\ Quiet
  /\ corpus = <<>>
  /\ policy = [r \in AuthorizeQueries |-> ALLOW]
  /\ endless = FALSE
  /\ callers = {}
  /\ codec \in CodecInputs

CodecNext == CodecEncode \/ CodecDecode

CodecSpec == CodecInit /\ [][CodecNext]_vars

\* One caller; the index is finite or the engine endless. Every call returns
\* and the clock keeps advancing.
LiveInit ==
  /\ Quiet
  /\ corpus \in {c \in Corpora : \A j \in 1..Len(c) : c[j].resourceRef = Some("r2")}
  /\ policy \in Policies
  /\ endless \in BOOLEAN
  /\ callers = {1}
  /\ codec = CodecOff

\* A call of an iteration that takes time.
ClockAdvances ==
  \E i \in Callers : \E d \in 1..MaxDelay :
    EngineQueryIn(i, d) \/ AuthorizeDocsIn(i, d)

LiveSpec ==
  /\ LiveInit
  /\ [][Next]_vars
  /\ WF_vars(Next)
  /\ SF_vars(ClockAdvances)

\* Two callers with different credentials query the same instance at any
\* time; the index holds a document of each kind.
ConcInit ==
  /\ Quiet
  /\ corpus = [j \in 1..3 |->
                 [id |-> j,
                  type |-> IF j = 3 THEN "b" ELSE "a",
                  resourceRef |-> IF j = 1 THEN Some("r1")
                                  ELSE IF j = 2 THEN Some("r2") ELSE Undefined]]
  /\ policy \in {f \in Policies : f[Request("p", Some("r2"))] = DENY}
  /\ endless = FALSE
  /\ callers = Callers
  /\ codec = CodecOff

ConcSpec == ConcInit /\ [][Next]_vars

-----------------------------------------------------------------------------
\* Properties.

Running(q) == q.pc \in {"authTypes", "fetch", "authDocs"}
Returned(q) == q.pc = "done"

\* The collaborator denies the type's visibility permission.
TypeDenied(type) ==
  /\ visibilityPermission(type) # Undefined
  /\ policy[Request(visibilityPermission(type)[1], Undefined)] = DENY

\* C1: no engine call of a query carries, in its types restriction, a
\* requested type whose visibility permission the collaborator denied.
C1_DeniedTypeNotQueried ==
  \A i \in Callers : \A t \in Range(qs[i].requestedTypes) :
    TypeDenied(t) => t \notin Range(qs[i].engineCall.types)

\* An engine call was made for type b while the requested type a is denied.
C1_Witness ==
  /\ qs[1].engineCalls > 0
  /\ TypeDenied("a")
  /\ "a" \in Range(qs[1].requestedTypes)
  /\ qs[1].engineCall.types = <<"b">>

\* C2: the returned results hold no result of a type whose type-level decision
\* is DENY, whatever the page and the number of iterations, also when every
\* requested type is denied.
C2_NoDeniedTypeReturned ==
  \A i \in Callers :
    /\ \A j \in 1..Len(qs[i].filteredResults) : ~TypeDenied(qs[i].filteredResults[j].type)
    /\ \A j \in 1..Len(qs[i].result.results) : ~TypeDenied(qs[i].result.results[j].type)

\* A query returned results although the index holds a document of the denied
\* type a that carries no resourceRef.
C2_Witness ==
  /\ Returned(qs[1])
  /\ TypeDenied("a")
  /\ "a" \in Range(qs[1].requestedTypes)
  /\ \E j \in 1..Len(corpus) : corpus[j].type = "a" /\ corpus[j].resourceRef = Undefined
  /\ Len(qs[1].result.results) > 0

\* C3: within one query no request key (permission, resourceRef) is sent to
\* the collaborator twice, neither within one authorize call nor in two calls.
C3_KeyAuthorizedOnce ==
  \A i \in Callers :
    LET call == qs[i].authorizeCall IN
      /\ \A j, k \in 1..Len(call) : j # k => call[j] # call[k]
      /\ \A j \in 1..Len(call) : call[j] \notin qs[i].authorizedBefore

\* What the caller may see of a result, by the collaborator's decisions alone.
Visible(r) ==
  LET perm == visibilityPermission(r.type) IN
  \/ perm = Undefined
  \/ policy[Request(perm[1], Undefined)] = ALLOW
  \/ /\ policy[Request(perm[1], Undefined)] = CONDITIONAL
     /\ \/ r.resourceRef = Undefined
        \/ policy[Request(perm[1], r.resourceRef)] = ALLOW

\* All raw results of the query's types, in order, filtered.
AllFiltered(q) ==
  SelectSeq(corpus, LAMBDA r : r.type \in Range(q.requestedTypes) /\ Visible(r))

\* C4: with the budget not exhausted, the results returned for page p are the
\* elements at positions [p*pageSize, (p+1)*pageSize) of all raw results
\* filtered, p a page index (a non-negative integer).
C4_PageIsWindow ==
  \A i \in Callers :
    LET q == qs[i]
        all == AllFiltered(q)
    IN (Returned(q) /\ ~q.latencyBudgetExhausted /\ IsInteger(q.page) /\ ~endless) =>
         q.result.results =
           SubSeq(all, q.page.m * pageSize + 1, Min((q.page.m + 1) * pageSize, Len(all)))

\* Page 1 was returned non-empty after two engine calls.
C4_Witness ==
  /\ Returned(qs[1])
  /\ ~qs[1].latencyBudgetExhausted
  /\ qs[1].page = Int2Num(1)
  /\ qs[1].engineCalls = 2
  /\ Len(qs[1].result.results) > 0

\* C5: every query that was started eventually returns or fails, also with an
\* endless engine whose results are all dropped.
C5_Terminates ==
  \A i \in Callers : Running(qs[i]) ~> (qs[i].pc \in {"done", "failed"})

\* An endless engine, every result dropped, and the query returned after more
\* than one iteration.
C5_Witness ==
  /\ endless
  /\ Returned(qs[1])
  /\ qs[1].engineCalls > 1
  /\ Len(corpus) > 0
  /\ Len(qs[1].filteredResults) = 0
  /\ qs[1].engineCall.types # <<>>

\* C6: once the elapsed time measured at the end of an iteration exceeds the
\* budget, the loop has ended (no further engine call) and the returned result
\* set has no nextPageCursor.
C6_BudgetDegradation ==
  \A i \in Callers :
    qs[i].elapsed > queryLatencyBudgetMs =>
      /\ Returned(qs[i])
      /\ qs[i].result.nextPageCursor = Undefined

\* The first engine call overran the budget: the engine reported a further
\* cursor, the page is not full, and the query returned after that one call.
C6_Witness ==
  /\ Returned(qs[1])
  /\ qs[1].elapsed > queryLatencyBudgetMs
  /\ qs[1].engineCalls = 1
  /\ qs[1].nextPageCursor # Undefined
  /\ IntLessNum(Len(qs[1].filteredResults), qs[1].targetResults)

\* C7: with the budget not exhausted, the result set has a nextPageCursor
\* exactly when the engine's last response had a further cursor or more than
\* (page+1)*pageSize results were accumulated, and it is encode(page+1).
C7_NextPageCursor ==
  \A i \in Callers :
    LET q == qs[i]
        more == \/ q.nextPageCursor # Undefined
                \/ IntGreaterNum(Len(q.filteredResults),
                                 NumMulInt(NumAddInt(q.page, 1), pageSize))
    IN (Returned(q) /\ q.elapsed <= queryLatencyBudgetMs) =>
         /\ (q.result.nextPageCursor # Undefined) <=> more
         /\ more => q.result.nextPageCursor = encodePageCursor(NumAddInt(q.page, 1))

\* The engine is exhausted and the accumulated results go beyond the page.
C7_Witness ==
  /\ Returned(qs[1])
  /\ qs[1].elapsed <= queryLatencyBudgetMs
  /\ qs[1].nextPageCursor = Undefined
  /\ qs[1].result.nextPageCursor # Undefined

\* C8: for an incoming cursor that decodes to page p, previousPageCursor is
\* absent exactly when p = 0 and otherwise decodes to p-1, and nextPageCursor,
\* when present, decodes to p+1.
C8_CursorsDecodeToNeighbours ==
  \A i \in Callers :
    LET q == qs[i]
        prev == q.result.previousPageCursor
        next == q.result.nextPageCursor
    IN Returned(q) =>
         /\ (prev = Undefined) <=> NumIsZero(q.page)
         /\ prev # Undefined =>
              /\ decodePageCursor(prev).ok
              /\ decodePageCursor(prev).page = NumAddInt(q.page, 0 - 1)
         /\ next # Undefined =>
              /\ decodePageCursor(next).ok
              /\ decodePageCursor(next).page = NumAddInt(q.page, 1)

\* C9: decodePageCursor(encodePageCursor({page: p})) is {page: p} for every
\* integer p >= 0.
C9_RoundTrip ==
  codec.stage = "roundtrip" =>
    /\ codec.out.ok
    /\ codec.out.page.k = "fin"
    /\ codec.out.page.e = 0
    /\ codec.out.page.m = codec.page

\* The round trip of a page index of three digits.
C9_Witness ==
  /\ codec.stage = "roundtrip"
  /\ codec.page = 105
  /\ codec.payload = <<"1", "0", "5">>

\* C10: decodePageCursor gives page 0 for an absent cursor and accepts no
\* cursor whose payload is not a finite non-negative integer.
C10_RejectsNonIntegers ==
  codec.stage = "decoded" =>
    /\ codec.cursor = Undefined => (codec.out.ok /\ codec.out.page = Int2Num(0))
    /\ (codec.cursor # Undefined /\ codec.out.ok) =>
         /\ codec.out.page.k = "fin"
         /\ codec.out.page.e = 0
         /\ codec.out.page.m >= 0

\* The cursor is a page index on the wire: absent, or the base64 of a number
\* that is a non-negative integer.
IsPageIndex(pageCursor) ==
  \/ pageCursor = Undefined
  \/ LET n == NumberOfCursor(pageCursor) IN IsInteger(n) /\ n.m >= 0

\* C11: a query whose incoming page cursor is not a page index makes no call
\* of the wrapped engine and returns no result set.
C11_InvalidCursorNotAttempted ==
  \A i \in Callers :
    (qs[i].pc # "idle" /\ ~IsPageIndex(qs[i].query.pageCursor)) =>
      /\ qs[i].engineCalls = 0
      /\ ~Returned(qs[i])

\* The types a query asks for (line 93).
RequestedTypesOf(q) ==
  IF q.query.types = Undefined THEN TypeNames ELSE q.query.types[1]

\* The result's type has no visibility permission or its type-level decision
\* is ALLOW.
TypeAllowed(q, r) ==
  \/ visibilityPermission(r.type) = Undefined
  \/ TypeDecision(q.requestedTypes, q.typeDecisions, r.type) = Some(ALLOW)

\* C12: a result whose type has no visibility permission or whose type-level
\* decision is ALLOW loads no per-document request and is kept by the filter;
\* a query none of whose requested types has a visibility permission never
\* calls the authorization collaborator.
C12_TypeAllowSkipsDocumentChecks ==
  \A i \in Callers :
    LET q == qs[i]
        raw == q.nextPage.results
    IN /\ q.pc = "authDocs" =>
            \A j \in 1..Len(raw) : TypeAllowed(q, raw[j]) => q.slots[j].load = "none"
       /\ q.pc \in {"fetch", "done"} =>
            \A j \in 1..Len(raw) :
              TypeAllowed(q, raw[j]) => raw[j] \in Range(q.filteredResults)
       /\ (q.pc # "idle"
             /\ \A t \in Range(RequestedTypesOf(q)) : visibilityPermission(t) = Undefined) =>
            q.authorizeCalls = 0

\* A document of the allowed type a was returned although the collaborator
\* does not allow its resource r2: the type-level call was the only one.
C12_Witness ==
  /\ Returned(qs[1])
  /\ policy[Request("p", Undefined)] = ALLOW
  /\ \E j \in 1..Len(qs[1].result.results) :
       /\ qs[1].result.results[j].type = "a"
       /\ qs[1].result.results[j].resourceRef = Some("r2")
  /\ qs[1].authorizeCalls = 1
  /\ qs[1].engineCalls > 0

\* The raw results the wrapped engine has handed to the query so far, for a
\* finite index, once an iteration has ended.
RawRead(q) ==
  LET matching == SelectSeq(corpus, LAMBDA r : r.type \in Range(q.authorizedTypes))
  IN IF q.engineCalls = 0 THEN <<>>
     ELSE IF q.nextPageCursor = Undefined THEN matching
     ELSE SubSeq(matching, 1, q.nextPageCursor[1] * EnginePageSize)

\* The result carries a resourceRef and the decision of its type is neither
\* ALLOW nor DENY.
NeedsDocumentCheck(q, r) ==
  /\ r.resourceRef # Undefined
  /\ visibilityPermission(r.type) # Undefined
  /\ TypeDecision(q.requestedTypes, q.typeDecisions, r.type) \notin
       {Undefined, Some(ALLOW), Some(DENY)}

\* C13: of the raw results that carry a resourceRef and whose type-level
\* decision is neither ALLOW nor DENY, the filtered results hold exactly those
\* whose per-document decision is ALLOW, in the order of the raw results and
\* with nothing in the place of a dropped result.
C13_MixedPage ==
  \A i \in Callers :
    LET q == qs[i] IN
    (q.pc \in {"fetch", "done"} /\ ~endless) =>
      SelectSeq(q.filteredResults, LAMBDA r : NeedsDocumentCheck(q, r))
        = SelectSeq(RawRead(q),
                    LAMBDA r : /\ NeedsDocumentCheck(q, r)
                               /\ policy[Request(visibilityPermission(r.type)[1],
                                                 r.resourceRef)] = ALLOW)

\* The type a is conditional; of three raw results read in two iterations the
\* second, whose resource gets the decision CONDITIONAL, was dropped.
C13_Witness ==
  /\ Returned(qs[1])
  /\ policy[Request("p", Undefined)] = CONDITIONAL
  /\ policy[Request("p", Some("r2"))] = CONDITIONAL
  /\ Len(RawRead(qs[1])) = 3
  /\ RawRead(qs[1])[2].resourceRef = Some("r2")
  /\ Len(qs[1].filteredResults) = 2
  /\ qs[1].filteredResults[1].id = 1
  /\ qs[1].filteredResults[2].id = 3
  /\ qs[1].filteredResults[2].resourceRef = Some("r1")

\* C14: when an authorize call or an engine call of a query fails, the query
\* fails with the error of that call and without a result set, and from then
\* on it makes no engine call and no authorize call: nothing is retried.
C14_FailureAborts ==
  [][\A i \in Callers :
       LET q == qs[i]
           q2 == qs'[i]
       IN /\ q2.error # "" => (q2.pc = "failed" /\ q2.result = NoResult)
          /\ (q.pc # "failed" /\ q2.error = "AuthorizationFailure") =>
               (q.pc \in {"authTypes", "authDocs"} /\ q2.authorizeCalls = Count(q.authorizeCalls))
          /\ (q.pc # "failed" /\ q2.error = "UnderlyingEngineFailure") =>
               (q.pc = "fetch" /\ q2.engineCalls = Count(q.engineCalls))
          /\ q.pc = "failed" => q2 = q]_vars

\* The authorize call for the raw page of the second iteration failed.
C14_Witness ==
  /\ qs[1].pc = "failed"
  /\ qs[1].error = "AuthorizationFailure"
  /\ qs[1].engineCalls = 2
  /\ qs[1].result = NoResult

\* What a caller with the given options may see of a result, by the
\* collaborator's decisions for these options alone.
VisibleTo(options, r) ==
  LET perm == visibilityPermission(r.type)
      decide == PolicyOf(options)
  IN \/ perm = Undefined
     \/ decide[Request(perm[1], Undefined)] = ALLOW
     \/ /\ decide[Request(perm[1], Undefined)] = CONDITIONAL
        /\ \/ r.resourceRef = Undefined
           \/ decide[Request(perm[1], r.resourceRef)] = ALLOW

\* The requests a query loads for its types and for the raw results it read.
OwnRequests(q) ==
  {Request(visibilityPermission(t)[1], Undefined) :
     t \in {u \in Range(q.requestedTypes) : visibilityPermission(u) # Undefined}}
  \cup {Request(visibilityPermission(r.type)[1], r.resourceRef) :
          r \in {x \in Range(RawRead(q)) \cup Range(q.nextPage.results) :
                   visibilityPermission(x.type) # Undefined}}

\* C15: with two queries running concurrently, every authorize call of a
\* query carries that query's own options and only requests that query
\* loaded, and the types it searches and the results it keeps or drops are
\* those the collaborator's decisions for its own options give.
C15_QueriesIsolated ==
  \A i \in Callers :
    LET q == qs[i] IN
    /\ q.authorizeCall # <<>> =>
         /\ q.authorizeOptions = i
         /\ Range(q.authorizeCall) \subseteq OwnRequests(q)
    /\ q.pc \in {"fetch", "authDocs", "done"} =>
         q.authorizedTypes =
           SelectSeq(q.requestedTypes,
                     LAMBDA t : \/ visibilityPermission(t) = Undefined
                                \/ PolicyOf(i)[Request(visibilityPermission(t)[1],
                                                       Undefined)] # DENY)
    /\ q.pc \in {"fetch", "done"} =>
         q.filteredResults = SelectSeq(RawRead(q), LAMBDA r : VisibleTo(i, r))

\* Both queries are past their first raw page at the same time, and the one
\* kept the document the other dropped.
C15_Witness ==
  /\ qs[1].pc = "fetch"
  /\ qs[2].pc = "fetch"
  /\ qs[1].engineCalls = 1
  /\ qs[2].engineCalls = 1
  /\ qs[1].authorizeCalls = 2
  /\ qs[2].authorizeCalls = 2
  /\ Len(qs[1].filteredResults) = 1
  /\ Len(qs[2].filteredResults) = 1
  /\ qs[1].filteredResults[1].id = 1
  /\ qs[2].filteredResults[1].id = 2

\* C16: at the end of each iteration the query goes on to another engine call
\* exactly when the engine's last response had a further cursor, fewer than
\* (page+1)*pageSize results are accumulated and the elapsed time is at most
\* queryLatencyBudgetMs; otherwise it has returned its result set.
C16_LoopCondition ==
  \A i \in Callers :
    LET q == qs[i]
        again == /\ q.nextPage.nextPageCursor # Undefined
                 /\ IntLessNum(Len(q.filteredResults),
                               NumMulInt(NumAddInt(q.page, 1), pageSize))
                 /\ q.elapsed <= queryLatencyBudgetMs
    IN (q.engineCalls > 0 /\ q.pc \in {"fetch", "done"}) =>
         /\ again <=> q.pc = "fetch"
         /\ ~again <=> Returned(q)

\* An iteration ended exactly on the budget with the page not covered and a
\* further cursor: the query goes on.
C16_Witness ==
  /\ qs[1].pc = "fetch"
  /\ qs[1].engineCalls = 1
  /\ qs[1].elapsed = queryLatencyBudgetMs
  /\ qs[1].nextPage.nextPageCursor # Undefined
  /\ Len(qs[1].filteredResults) = 0

\* C17: the type-level requests of a query go out in at most one authorize
\* call and the per-document requests of one raw page in at most one, so a
\* query has made at most one authorize call more than engine calls; and each
\* request gets the decision at its own position of the response: the type
\* decisions and the kept results are those of the requests' own decisions.
C17_CoalescedPerWave ==
  \A i \in Callers :
    LET q == qs[i] IN
    /\ q.authorizeCalls <= 1 + q.engineCalls
    /\ (q.pc = "authDocs" /\ q.engineCalls < MaxCount) =>
         q.authorizeCalls <= q.engineCalls
    /\ \A k \in q.cache : k.decision = PolicyOf(i)[k.request]
    /\ q.pc \in {"fetch", "authDocs", "done"} =>
         \A j \in 1..Len(q.requestedTypes) :
           q.typeDecisions[j] =
             IF visibilityPermission(q.requestedTypes[j]) = Undefined THEN ALLOW
             ELSE PolicyOf(i)[Request(visibilityPermission(q.requestedTypes[j])[1],
                                     Undefined)]
    /\ (q.pc \in {"fetch", "done"} /\ ~endless) =>
         q.filteredResults = SelectSeq(RawRead(q), LAMBDA r : VisibleTo(i, r))

\* Two engine calls and three authorize calls; the requests for the two
\* resources of the first raw page went out in one call.
C17_Witness ==
  /\ Returned(qs[1])
  /\ qs[1].engineCalls = 2
  /\ qs[1].authorizeCalls = 3
  /\ {Request("p", Some("r1")), Request("p", Some("r2"))}
       \subseteq qs[1].authorizedBefore
  /\ Len(qs[1].authorizeCall) = 1

\* The type-level decision of the result's type is not ALLOW, and the type
\* has no visibility permission or the document no resourceRef.
DefaultAllowed(q, r) ==
  /\ TypeDecision(q.requestedTypes, q.typeDecisions, r.type) # Some(ALLOW)
  /\ \/ visibilityPermission(r.type) = Undefined
     \/ r.resourceRef = Undefined

\* C18: a raw result whose type-level decision is not ALLOW, and whose type
\* has no visibility permission or whose document has no resourceRef, loads
\* no authorization request and is kept by the filter.
C18_DefaultAllow ==
  \A i \in Callers :
    LET q == qs[i]
        raw == q.nextPage.results
    IN /\ q.pc = "authDocs" =>
            \A j \in 1..Len(raw) :
              DefaultAllowed(q, raw[j]) => q.slots[j].load = "none"
       /\ q.pc \in {"fetch", "done"} =>
            \A j \in 1..Len(raw) :
              DefaultAllowed(q, raw[j]) => raw[j] \in Range(q.filteredResults)

\* Of one raw page of the conditional type a, the document with the resource
\* r2 was dropped and the document without resourceRef kept.
C18_Witness ==
  /\ Returned(qs[1])
  /\ policy[Request("p", Undefined)] = CONDITIONAL
  /\ Len(qs[1].nextPage.results) = 2
  /\ qs[1].nextPage.results[1].resourceRef = Some("r2")
  /\ qs[1].nextPage.results[2].type = "a"
  /\ qs[1].nextPage.results[2].resourceRef = Undefined
  /\ qs[1].filteredResults = <<qs[1].nextPage.results[2]>>
  /\ qs[1].authorizeCall = <<Request("p", Some("r2"))>>

\* C19: the first engine call of a query carries no pageCursor, whatever the
\* caller's cursor, and each later one the nextPageCursor of the response to
\* the engine call before it; every engine call carries the caller's query
\* with the authorized types for `types`.
C19_CursorChaining ==
  [][\A i \in Callers :
       LET q == qs[i]
           q2 == qs'[i]
       IN (q.pc = "fetch" /\ q2.pc \in {"fetch", "authDocs", "done"} /\ q2 # q) =>
            /\ q2.engineCall.pageCursor =
                 IF q.engineCalls = 0 THEN Undefined ELSE q.nextPage.nextPageCursor
            /\ q2.engineCall.term = q.query.term
            /\ q2.engineCall.types = q.authorizedTypes
            /\ q2.query = q.query]_vars

\* The caller asked for page 1; the second engine call carried the cursor of
\* the first response.
C19_Witness ==
  /\ qs[1].query.pageCursor = CursorOf(<<"1">>)
  /\ qs[1].engineCalls = 2
  /\ qs[1].engineCall.pageCursor = Some(1)
  /\ qs[1].engineCall.term = "t"
  /\ qs[1].nextPage.nextPageCursor = Undefined

\* C20: when a query returns without nextPageCursor and its budget was not
\* exhausted, the last response of the engine had no further cursor and all
\* the results the caller may see are accumulated, each at a position below
\* (page+1)*pageSize: none lies beyond the returned page.
C20_ClosingPageComplete ==
  \A i \in Callers :
    LET q == qs[i] IN
    (/\ Returned(q)
     /\ q.result.nextPageCursor = Undefined
     /\ ~q.latencyBudgetExhausted
     /\ ~endless) =>
      /\ q.nextPage.nextPageCursor = Undefined
      /\ q.filteredResults = SelectSeq(corpus,
                                LAMBDA r : r.type \in Range(q.requestedTypes)
                                           /\ VisibleTo(i, r))
      /\ ~IntGreaterNum(Len(q.filteredResults),
                        NumMulInt(NumAddInt(q.page, 1), pageSize))
      /\ q.result.results =
           Slice(q.filteredResults, NumMulInt(q.page, pageSize),
                 Int2Num(Len(q.filteredResults)))

\* Page 1 is the closing page: two engine calls read the index to its end,
\* the second of the two authorized results is returned, without a cursor.
C20_Witness ==
  /\ Returned(qs[1])
  /\ qs[1].result.nextPageCursor = Undefined
  /\ ~qs[1].latencyBudgetExhausted
  /\ qs[1].page = Int2Num(1)
  /\ qs[1].engineCalls = 2
  /\ Len(qs[1].filteredResults) = 2
  /\ Len(corpus) = 3
  /\ qs[1].result.results = <<qs[1].filteredResults[2]>>

====
